---- MODULE Spec2Model ----
(***************************************************************************)
(* Model of shared/src/types/hash.rs: the 32-byte `Hash` value type and    *)
(* the validated hex text type `HashString`.                               *)
(*                                                                         *)
(* Bytes are naturals in 0..255, a `char` is its Unicode scalar value, a   *)
(* slice / array / str is a sequence.  Every operation of the file is an   *)
(* operator computed as the code computes it.  The state machine starts   *)
(* with an input drawn from a bounded family and applies the operations:  *)
(* `op` is the last operation called ("init": none yet), `arg` its input, *)
(* `argty` the type of `arg`, `res` its output and, for a conversion back *)
(* from H256, `prev` is the Hash that the H256 was made from.             *)
(***************************************************************************)
EXTENDS Integers, Naturals, Sequences, FiniteSets, TLC

VARIABLES op, argty, arg, res, prev

vars == <<op, argty, arg, res, prev>>

(***************************************************************************)
(* Bounds of the input families.                                           *)
(***************************************************************************)
\* longest byte slice handed to Hash::try_from
MaxSliceLen == 33
\* most characters appended after the 64th character of a string
MaxTail == 2

(***************************************************************************)
(* Program constants.                                                      *)
(***************************************************************************)
HASH_LENGTH == 32

HEX_LEN == HASH_LENGTH * 2

(***************************************************************************)
(* Values.                                                                 *)
(***************************************************************************)
\* Result::Ok / Result::Err
Ok(v) == [ty |-> "Ok", value |-> v]

Err(e) == [ty |-> "Err", error |-> e]

\* the tuple struct Hash(pub [u8; 32]); f0 is its field .0
Hash(bytes) == [ty |-> "Hash", f0 |-> bytes]

\* the Merkle tree library's H256, a wrapper of [u8; 32]
H256(bytes) == [ty |-> "H256", f0 |-> bytes]

\* struct HashString { inner: [u8; 64] }
HashString(buf) == [ty |-> "HashString", inner |-> buf]

\* [x; n]
Repeat(x, n) == [i \in 1..n |-> x]

(***************************************************************************)
(* Error                                                                   *)
(***************************************************************************)
\* Display of a usize: its decimal digits, as characters
RECURSIVE Decimal(_)
Decimal(n) ==
    IF n < 10 THEN <<48 + n>>
    ELSE Decimal(n \div 10) \o <<48 + (n % 10)>>

\* FormatLengthError with the two arguments in the wrong order
FormatLengthError_swapped(a, b) ==
    <<"Unexpected tx hash length ", Decimal(b), ", expected ", Decimal(a)>>

\* format!("Unexpected tx hash length {}, expected {}", a, b): the literal
\* pieces and the two rendered arguments, in order
FormatLengthError(a, b) ==
    <<"Unexpected tx hash length ", Decimal(a), ", expected ", Decimal(b)>>

Temporary(msg) == [error |-> msg, variant |-> "Temporary"]

ConversionFailed(e) == [f0 |-> e, variant |-> "ConversionFailed"]

NotHexEncoded == [variant |-> "NotHexEncoded"]

(***************************************************************************)
(* Hash                                                                    *)
(***************************************************************************)
\* <[u8; 32] as TryFrom<&[u8]>>::try_from: the standard conversion, which
\* fails with TryFromSliceError exactly when the slice length is not 32
ArrayTryFrom(value) ==
    IF Len(value) = 32 THEN Ok([i \in 1..32 |-> value[i]])
    ELSE Err("TryFromSliceError")

\* Hash_try_from checking the length against that of the hex text
Hash_try_from_hexlen(value) ==
    IF Len(value) # HASH_LENGTH * 2
    THEN Err(Temporary(FormatLengthError(Len(value), HASH_LENGTH)))
    ELSE LET hash == ArrayTryFrom(value)
         IN  IF hash.ty = "Err" THEN Err(ConversionFailed(hash.error))
             ELSE Ok(Hash(hash.value))

\* Hash_try_from rejecting short slices only
Hash_try_from_lt(value) ==
    IF Len(value) < HASH_LENGTH
    THEN Err(Temporary(FormatLengthError(Len(value), HASH_LENGTH)))
    ELSE LET hash == ArrayTryFrom(value)
         IN  IF hash.ty = "Err" THEN Err(ConversionFailed(hash.error))
             ELSE Ok(Hash(hash.value))

\* impl TryFrom<&[u8]> for Hash
Hash_try_from(value) ==
    IF Len(value) # HASH_LENGTH
    THEN Err(Temporary(FormatLengthError(Len(value), HASH_LENGTH)))
    ELSE LET hash == ArrayTryFrom(value)
         IN  IF hash.ty = "Err" THEN Err(ConversionFailed(hash.error))
             ELSE Ok(Hash(hash.value))

\* impl AsRef<[u8]> for Hash
Hash_as_ref(self) == self.f0

\* impl Deref for Hash
Hash_deref(self) == self.f0

\* Value::zero
zero == Hash(Repeat(0, 32))

\* #[derive(Default)] on Hash
Hash_default == Hash(Repeat(0, 32))

\* #[derive(PartialEq)] on Hash: field by field, the array element by element
Hash_eq(a, b) ==
    /\ Len(a.f0) = Len(b.f0)
    /\ \A i \in 1..Len(a.f0) : a.f0[i] = b.f0[i]

\* is_zero looking at the first byte only
is_zero_first(self) == self.f0[1] = 0

\* Hash::is_zero
is_zero(self) == Hash_eq(self, zero)

\* one digit of {:X}
UpperHexDigit(d) == IF d < 10 THEN 48 + d ELSE 65 + (d - 10)

\* {:X} of a u8: the digits, most significant first, without padding
RECURSIVE UpperHex(_)
UpperHex(n) ==
    IF n < 16 THEN <<UpperHexDigit(n)>>
    ELSE UpperHex(n \div 16) \o <<UpperHexDigit(n % 16)>>

\* {:X} in place of {:02X}: no padding
Fmt02X_nopad(byte) == UpperHex(byte)

\* {:02X}: {:X} padded on the left with '0' to width 2
Fmt02X(byte) ==
    LET digits == UpperHex(byte)
    IN  IF Len(digits) < 2 THEN Repeat(48, 2 - Len(digits)) \o digits
        ELSE digits

\* impl Display for Hash: the loop over &self.0, from byte `i` on
RECURSIVE FmtFrom(_, _)
FmtFrom(self, i) ==
    IF i > Len(self.f0) THEN <<>>
    ELSE Fmt02X(self.f0[i]) \o FmtFrom(self, i + 1)

Hash_fmt(self) == FmtFrom(self, 1)

\* From<Hash> for H256 storing the bytes in the opposite order
H256_from_Hash_rev(hash) == H256([i \in 1..32 |-> hash.f0[33 - i]])

\* impl From<Hash> for H256
H256_from_Hash(hash) == H256(hash.f0)

\* impl From<H256> for Hash
Hash_from_H256(hash) == Hash(hash.f0)

\* impl From<&H256> for Hash
Hash_from_H256_ref(hash) ==
    LET copy == hash
    IN  Hash(copy.f0)

(***************************************************************************)
(* HashString                                                              *)
(***************************************************************************)
\* impl Default for HashString
HashString_default == HashString(Repeat(0, HASH_LENGTH * 2))

\* the match arm with a lower-case range one letter too long: 'a'..='g'
IsHexArm_g(ch) ==
    \/ (97 <= ch /\ ch <= 103)
    \/ (65 <= ch /\ ch <= 70)
    \/ (48 <= ch /\ ch <= 57)

\* the match arm 'a'..='f' | 'A'..='F' | '0'..='9'
IsHexArm(ch) ==
    \/ (97 <= ch /\ ch <= 102)
    \/ (65 <= ch /\ ch <= 70)
    \/ (48 <= ch /\ ch <= 57)

\* `ch.to_ascii_uppercase() as u8`: the digit stored in upper case
AsU8_upper(ch) == IF 97 <= ch /\ ch <= 122 THEN ch - 32 ELSE ch % 256

\* `ch as u8`: the scalar value truncated to 8 bits
AsU8(ch) == ch % 256

Min(a, b) == IF a < b THEN a ELSE b

\* the loop over hash.chars() alone: every character of the input is
\* matched and counted, the first HEX_LEN of them are stored
RECURSIVE TryFromLoop_all(_, _, _, _)
TryFromLoop_all(hash, i, buf, hash_len) ==
    IF i > Len(hash)
    THEN [buf |-> buf, hash_len |-> hash_len, ret |-> FALSE]
    ELSE IF IsHexArm(hash[i])
         THEN TryFromLoop_all(hash, i + 1,
                              IF i <= Len(buf)
                              THEN [buf EXCEPT ![i] = AsU8(hash[i])]
                              ELSE buf,
                              hash_len + 1)
         ELSE [buf |-> buf, hash_len |-> hash_len, ret |-> TRUE]

\* the for loop of HashString::try_from, from item `i` of the zipped
\* iterator on: buf.iter_mut() has HEX_LEN slots and hash.chars().take(HEX_LEN)
\* has at most HEX_LEN characters, so the zip ends after the shorter of the two
RECURSIVE TryFromLoop(_, _, _, _)
TryFromLoop(hash, i, buf, hash_len) ==
    IF i > Min(Len(buf), Min(Len(hash), HEX_LEN))
    THEN [buf |-> buf, hash_len |-> hash_len, ret |-> FALSE]
    ELSE IF IsHexArm(hash[i])
         THEN TryFromLoop(hash, i + 1,
                          [buf EXCEPT ![i] = AsU8(hash[i])], hash_len + 1)
         ELSE [buf |-> buf, hash_len |-> hash_len, ret |-> TRUE]

\* impl TryFrom<&str> for HashString
HashString_try_from(hash) ==
    LET loop == TryFromLoop(hash, 1, Repeat(0, HEX_LEN), 0)
    IN  IF loop.ret THEN Err(NotHexEncoded)
        ELSE IF loop.hash_len = HEX_LEN THEN Ok(HashString(loop.buf))
        ELSE Err(NotHexEncoded)

\* impl TryFrom<String> for HashString
HashString_try_from_String(hash) == HashString_try_from(hash)

\* impl Deref for HashString: std::str::from_utf8_unchecked(&self.inner).
\* The buffer holds bytes below 128 only (a hex digit each, or the NUL of the
\* default value), and the characters of an ASCII byte string are its bytes.
HashString_deref(self) == [i \in 1..Len(self.inner) |-> self.inner[i]]

(***************************************************************************)
(* Inputs                                                                  *)
(***************************************************************************)
\* n items, all `bg` except item p, which is `d` (p = 0: no such item)
Mk(n, p, d, bg) == [i \in 1..n |-> IF i = p THEN d ELSE bg]

\* 0x00 0x01 0x0F 0x10 0xAB 0xFF
ByteSamples == {0, 1, 15, 16, 171, 255}

ByteFill == {0, 171}

\* '0' '9' 'a' 'f' 'A' 'F', their neighbours '/' ':' '`' 'g' '@' 'G',
\* and U+0130, whose low byte is that of '0'
CharSamples == {48, 57, 97, 102, 65, 70, 47, 58, 96, 103, 64, 71, 304}

\* 'c'
CharFill == {99}

\* 'z' '7' U+0130
TailChars == {122, 55, 304}

\* a byte slice of any length up to MaxSliceLen
IsSliceInput(value) ==
    \E n \in 0..MaxSliceLen : \E p \in 0..n :
        \E d \in ByteSamples, bg \in ByteFill : value = Mk(n, p, d, bg)

\* Hash has a public field: every [u8; 32] is a Hash
IsHashInput(h) ==
    \E p \in 0..32 : \E d \in ByteSamples, bg \in ByteFill :
        h = Hash(Mk(32, p, d, bg))

\* a string of up to HEX_LEN characters, or one of HEX_LEN characters
\* followed by up to MaxTail more
IsStrInput(hash) ==
    \/ \E n \in 0..HEX_LEN : \E p \in 0..n :
           \E d \in CharSamples, bg \in CharFill : hash = Mk(n, p, d, bg)
    \/ \E p \in 0..HEX_LEN : \E d \in {48, 70, 103}, bg \in CharFill :
           \E t \in TailChars, k \in 1..MaxTail :
               hash = Mk(HEX_LEN, p, d, bg) \o Repeat(t, k)

(***************************************************************************)
(* The state machine: one action per operation                             *)
(***************************************************************************)
None == [ty |-> "none"]

Init ==
    /\ op = "init"
    /\ res = None
    /\ prev = <<>>
    /\ \/ argty = "slice" /\ IsSliceInput(arg)
       \/ argty = "str" /\ IsStrInput(arg)
       \/ argty = "Hash" /\ IsHashInput(arg)
       \/ argty = "unit" /\ arg = <<>>

\* the call of `name` on the input returns `output`
Ret(name, output) ==
    /\ op' = name
    /\ res' = output
    /\ UNCHANGED <<argty, arg, prev>>

\* a Hash is at hand: the input, or what the last call returned
HasHash ==
    \/ op = "init" /\ argty = "Hash"
    \/ res.ty = "Hash"
    \/ res.ty = "Ok" /\ res.value.ty = "Hash"

CurHash ==
    IF op = "init" THEN arg
    ELSE IF res.ty = "Hash" THEN res
    ELSE res.value

\* the call of `name` on the Hash at hand returns `output`
RetOnHash(name, output) ==
    /\ op' = name
    /\ argty' = "Hash"
    /\ arg' = CurHash
    /\ res' = output
    /\ prev' = <<>>

\* the call of `name` on the H256 the last call returned returns `output`
RetOnH256(name, output) ==
    /\ op' = name
    /\ argty' = "H256"
    /\ arg' = res
    /\ res' = output
    /\ prev' = arg

TryFromSlice ==
    /\ op = "init" /\ argty = "slice"
    /\ Ret("Hash::try_from", Hash_try_from(arg))

Zero ==
    /\ op = "init" /\ argty = "unit"
    /\ Ret("zero", zero)

DefaultHash ==
    /\ op = "init" /\ argty = "unit"
    /\ Ret("Hash::default", Hash_default)

IsZero ==
    /\ HasHash
    /\ RetOnHash("is_zero", [ty |-> "bool", value |-> is_zero(CurHash)])

Fmt ==
    /\ HasHash
    /\ RetOnHash("fmt", [ty |-> "String", chars |-> Hash_fmt(CurHash)])

IntoH256 ==
    /\ HasHash
    /\ RetOnHash("H256::from", H256_from_Hash(CurHash))

FromH256 ==
    /\ res.ty = "H256"
    /\ RetOnH256("Hash::from", Hash_from_H256(res))

FromH256Ref ==
    /\ res.ty = "H256"
    /\ RetOnH256("Hash::from_ref", Hash_from_H256_ref(res))

TryFromStr ==
    /\ op = "init" /\ argty = "str"
    /\ Ret("HashString::try_from", HashString_try_from(arg))

TryFromString ==
    /\ op = "init" /\ argty = "str"
    /\ Ret("HashString::try_from_String", HashString_try_from_String(arg))

DefaultHashString ==
    /\ op = "init" /\ argty = "unit"
    /\ Ret("HashString::default", HashString_default)

Next ==
    \/ TryFromSlice
    \/ Zero
    \/ DefaultHash
    \/ IsZero
    \/ Fmt
    \/ IntoH256
    \/ FromH256
    \/ FromH256Ref
    \/ TryFromStr
    \/ TryFromString
    \/ DefaultHashString

Spec == Init /\ [][Next]_vars

(***************************************************************************)
(* Vocabulary of the properties                                            *)
(***************************************************************************)
\* [0-9a-fA-F]
HexDigitChars == (48..57) \cup (65..70) \cup (97..102)

\* [0-9A-F]
UpperHexChars == (48..57) \cup (65..70)

\* the value of a hex digit character
HexVal(c) == IF c <= 57 THEN c - 48 ELSE IF c <= 70 THEN c - 55 ELSE c - 87

\* the number a decimal numeral denotes
RECURSIVE DecimalValue(_)
DecimalValue(digits) ==
    IF Len(digits) = 0 THEN 0
    ELSE 10 * DecimalValue(SubSeq(digits, 1, Len(digits) - 1))
         + (digits[Len(digits)] - 48)

Parsed == op \in {"HashString::try_from", "HashString::try_from_String"}

\* the first 64 characters exist and are hex digits
HexPrefix(hash) ==
    /\ Len(hash) >= 64
    /\ \A i \in 1..64 : hash[i] \in HexDigitChars

(***************************************************************************)
(* Properties                                                              *)
(***************************************************************************)
\* C1: constructing a hash from a slice of exactly 32 bytes succeeds, and
\* both byte views (as_ref, deref) of the hash equal the slice byte for byte.
C1_FromBytesKeepsBytes ==
    (op = "Hash::try_from" /\ Len(arg) = 32) =>
        /\ res.ty = "Ok"
        /\ res.value.ty = "Hash"
        /\ Hash_as_ref(res.value) = arg
        /\ Hash_deref(res.value) = arg

C1_Witness ==
    /\ op = "Hash::try_from"
    /\ Len(arg) = 32
    /\ res.ty = "Ok"
    /\ arg[7] = 255 /\ arg[8] = 171

\* C2: constructing a hash from a slice whose length is not 32 fails with the
\* length error (Error::Temporary), whose message carries the actual length
\* and then the expected length 32, and no hash is produced.
C2_LengthMismatch ==
    (op = "Hash::try_from" /\ Len(arg) # 32) =>
        /\ res.ty = "Err"
        /\ DOMAIN res = {"ty", "error"}
        /\ res.error.variant = "Temporary"
        /\ Len(res.error.error) = 4
        /\ res.error.error[1] = "Unexpected tx hash length "
        /\ DecimalValue(res.error.error[2]) = Len(arg)
        /\ res.error.error[3] = ", expected "
        /\ DecimalValue(res.error.error[4]) = 32

C2_Witness ==
    /\ op = "Hash::try_from"
    /\ Len(arg) = 31
    /\ res.ty = "Err"
    /\ res.error.error[2] = <<51, 49>>

\* C3: parsing a string of exactly 64 hex digits (from &str or from String)
\* succeeds, and the text view of the result equals the input character for
\* character, letter case included.
C3_ParseAccepts ==
    (Parsed /\ Len(arg) = 64 /\ \A i \in 1..64 : arg[i] \in HexDigitChars) =>
        /\ res.ty = "Ok"
        /\ res.value.ty = "HashString"
        /\ HashString_deref(res.value) = arg

C3_Witness ==
    /\ op = "HashString::try_from_String"
    /\ Len(arg) = 64
    /\ res.ty = "Ok"
    /\ arg[1] = 99 /\ arg[64] = 70
    /\ HashString_deref(res.value)[64] = 70

\* C4: parsing succeeds if and only if the first 64 characters exist and are
\* all hex digits; every other input fails with NotHexEncoded and nothing
\* else (no partial result).
C4_ParseRejects ==
    Parsed =>
        /\ res.ty = "Ok" <=> HexPrefix(arg)
        /\ res.ty # "Ok" => res = Err(NotHexEncoded)

C4_Witness ==
    /\ op = "HashString::try_from"
    /\ Len(arg) = 64
    /\ arg[64] = 103
    /\ res = Err(NotHexEncoded)

\* C5: every HashString obtained by a successful parse or by default() has a
\* buffer of exactly 64 bytes, each an ASCII hex digit, so that its text view
\* is 64 hex digit characters.
C5_AlwaysHex ==
    LET held == IF res.ty = "HashString" THEN <<res>>
                ELSE IF res.ty = "Ok" /\ res.value.ty = "HashString"
                     THEN <<res.value>>
                ELSE <<>>
    IN  \A k \in 1..Len(held) :
            /\ Len(held[k].inner) = 64
            /\ \A i \in 1..64 : held[k].inner[i] \in HexDigitChars
            /\ Len(HashString_deref(held[k])) = 64
            /\ \A i \in 1..64 : HashString_deref(held[k])[i] \in HexDigitChars

\* C6: the Display rendering of a hash is 64 characters of [0-9A-F], and
\* characters 2i and 2i+1 (from 0) are the high and the low nibble of byte i.
C6_Rendering ==
    (op = "fmt") =>
        /\ res.ty = "String"
        /\ Len(res.chars) = 64
        /\ \A i \in 1..Len(res.chars) : res.chars[i] \in UpperHexChars
        /\ \A i \in 0..31 :
              /\ HexVal(res.chars[2 * i + 1]) = arg.f0[i + 1] \div 16
              /\ HexVal(res.chars[2 * i + 2]) = arg.f0[i + 1] % 16

C6_Witness ==
    /\ op = "fmt"
    /\ arg.f0[1] = 171
    /\ arg.f0[3] = 15
    /\ SubSeq(res.chars, 1, 6) = <<65, 66, 65, 66, 48, 70>>

\* C7: is_zero(h) holds if and only if all 32 bytes of h are zero; zero(),
\* which is also the default value, satisfies is_zero.
C7_IsZero ==
    /\ (op = "is_zero") =>
          (res.value <=> \A i \in 1..32 : arg.f0[i] = 0)
    /\ (op = "zero") => (is_zero(res) /\ res = Hash_default)
    /\ (op = "Hash::default") => (is_zero(res) /\ res = zero)

C7_Witness ==
    /\ op = "is_zero"
    /\ arg.f0[32] = 1
    /\ \A i \in 1..31 : arg.f0[i] = 0
    /\ res.value = FALSE

C9_TailIgnored ==
    (Parsed /\ Len(arg) > 64 /\ HexPrefix(arg)) =>
        /\ res.ty = "Ok"
        /\ res = HashString_try_from(SubSeq(arg, 1, 64))
        /\ res.value.inner = SubSeq(arg, 1, 64)

C9_Witness ==
    /\ op = "HashString::try_from"
    /\ Len(arg) = 66
    /\ arg[65] = 122
    /\ res.ty = "Ok"

\* C10: constructing a hash from a slice never returns ConversionFailed: the
\* outcome is success when the length is 32 and the length error otherwise.
C10_NoConversionFailed ==
    (op = "Hash::try_from") =>
        /\ res.ty = "Err" => res.error.variant # "ConversionFailed"
        /\ \/ Len(arg) = 32 /\ res.ty = "Ok"
           \/ Len(arg) # 32 /\ res.ty = "Err" /\ res.error.variant = "Temporary"

C10_Witness ==
    /\ op = "Hash::try_from"
    /\ Len(arg) = 33
    /\ res.ty = "Err"
    /\ res.error.variant = "Temporary"

====
